---- MODULE Spec2Model ----
(***************************************************************************)
(* A model of phi.workflow.workflow.Workflow: identity, the session        *)
(* load / merge / save cycle against a WorkflowStorage, and the            *)
(* run_workflow wrapper with its single-result and generator branches.     *)
(*                                                                         *)
(* Python values are tagged so that values of different Python types can   *)
(* be compared: None and strings are [s |-> ...], dicts are [m |-> f].     *)
(* A RunResponse object is identified by the run that created it; objects  *)
(* referenced from two places (self.run_response and a WorkflowRun in      *)
(* self.memory.runs) are shared through that identity.                     *)
(***************************************************************************)
EXTENDS Integers, Sequences, FiniteSets, TLC

\* ---------------------------------------------------------------- bounds
\* Number of run_workflow() calls in one behaviour (uuid4 values handed out).
MaxRuns == 2
\* Longest sequence the user's run() yields.
MaxFrags == 2
\* Number of Store.upsert calls that return None in one behaviour.
MaxFail == 1
\* Nesting depth of the dicts drawn for the merge specification.
MaxDepth == 3

\* ---------------------------------------------------------------- values
Inst == {1, 2}
SessionIds == {"s1", "s2"}
Keys == {"a", "b"}

None == [s |-> "None"]
S(v) == [s |-> v]
M(f) == [m |-> f]
IsDict(v) == "m" \in DOMAIN v
EmptyFn == [k \in {} |-> None]
EmptyDict == M(EmptyFn)
\* Python truthiness of an Optional[Dict]: None and {} are falsy.
Truthy(d) == IsDict(d) /\ DOMAIN d.m # {}
\* d[k] = v on a dict value.
DictSet(d, k, v) == M([x \in DOMAIN d.m \cup {k} |-> IF x = k THEN v ELSE d.m[x]])
HasKey(d, k) == IsDict(d) /\ k \in DOMAIN d.m

\* str content of a RunResponse: a sequence of characters, or not a str.
Str(q) == [isStr |-> TRUE, str |-> q]
NotStr == [isStr |-> FALSE, str |-> <<>>]

RECURSIVE merge_dictionaries(_, _)
\* merge_dictionaries(a, b): b's keys go into a; a key that holds a dict on
\* both sides is merged recursively, any other key of b overwrites a's.
merge_dictionaries(a, b) ==
  M([k \in DOMAIN a.m \cup DOMAIN b.m |->
       IF k \notin DOMAIN b.m THEN a.m[k]
       ELSE IF k \in DOMAIN a.m /\ IsDict(a.m[k]) /\ IsDict(b.m[k])
            THEN merge_dictionaries(a.m[k], b.m[k])
            ELSE b.m[k]])

\* ---------------------------------------------------------------- storage
\* A WorkflowSession is a record; "no session" (Python None) is NoSession.
NoSession == [session_id |-> "None"]

\* WorkflowStorage.read(session_id)
StoreRead(st, sid) == st[sid]

\* WorkflowStorage.upsert(session): the stored session is echoed back, or
\* None (and nothing stored) when the storage fails.
StoreUpsert(st, session, ok) ==
  IF ok THEN [store |-> [st EXCEPT ![session.session_id] = session], echo |-> session]
  ELSE [store |-> st, echo |-> NoSession]

\* WorkflowStorage.delete_session(session_id)
StoreDelete(st, sid) == [st EXCEPT ![sid] = NoSession]

\* ---------------------------------------------------------------- memory
\* A WorkflowRun held in memory: ref # 0 names the RunResponse object it
\* shares with the workflow (its content is read through the object), ref = 0
\* is a WorkflowRun rebuilt from storage, which owns its own response.
LiveRun(input, r) == [input |-> input, run_id |-> r, content |-> NotStr, ref |-> r]

\* WorkflowMemory.add_run(run)
add_run(runs, run) == Append(runs, run)

\* The stored form of one WorkflowRun (WorkflowMemory.to_dict, per run).
RunToDict(run, heap) ==
  [ok |-> TRUE, input |-> run.input, run_id |-> run.run_id,
   content |-> IF run.ref # 0 THEN heap[run.ref].content ELSE run.content]

\* WorkflowMemory.to_dict()
to_dict(runs, heap) ==
  [isNone |-> FALSE, hasRuns |-> TRUE,
   runs |-> [n \in 1..Len(runs) |-> RunToDict(runs[n], heap)]]

\* WorkflowRun(**m): succeeds on a well-formed entry only.
WorkflowRun(m) == [input |-> m.input, run_id |-> m.run_id, content |-> m.content, ref |-> 0]

\* ---------------------------------------------------------------- session
\* Workflow.get_workflow_data: the dict that is saved, and self.workflow_data
\* afterwards (a non-empty dict is updated in place, None or {} is not).
get_workflow_data(w) ==
  LET workflow_data == IF Truthy(w.workflow_data) THEN w.workflow_data ELSE EmptyDict
      named == IF w.name # "None" THEN DictSet(workflow_data, "name", S(w.name))
               ELSE workflow_data
  IN [data |-> named,
      self |-> IF Truthy(w.workflow_data) THEN [w EXCEPT !.workflow_data = named] ELSE w]

\* Workflow.get_session_data: as get_workflow_data, for session_name.
get_session_data(w) ==
  LET session_data == IF Truthy(w.session_data) THEN w.session_data ELSE EmptyDict
      named == IF w.session_name # "None"
               THEN DictSet(session_data, "session_name", S(w.session_name))
               ELSE session_data
  IN [data |-> named,
      self |-> IF Truthy(w.session_data) THEN [w EXCEPT !.session_data = named] ELSE w]

\* Workflow.get_workflow_session: the WorkflowSession to save, and self after
\* the two in-place updates above.
get_workflow_session(w, heap) ==
  LET w1 == get_workflow_data(w).self
      w2 == get_session_data(w1).self
  IN [self |-> w2,
      session |-> [session_id |-> w.session_id,
                   workflow_id |-> w.workflow_id,
                   user_id |-> w.user_id,
                   memory |-> to_dict(w.runs, heap),
                   workflow_data |-> get_workflow_data(w).data,
                   user_data |-> w.user_data,
                   session_data |-> get_session_data(w1).data,
                   session_state |-> w.session_state]]

\* A load that keeps the workflow's dict whenever it is set.
LoadDictOwnOnly(stored, own) ==
  IF stored = None THEN own
  ELSE IF own # None THEN own
  ELSE stored

\* A load in which the stored dict takes precedence over the workflow's.
LoadDictStoredWins(stored, own) ==
  IF stored = None THEN own
  ELSE IF own # None THEN merge_dictionaries(own, stored)
  ELSE stored

\* One of the four dicts in from_workflow_session: the stored dict, updated
\* with the workflow's own dict when that is set, becomes the workflow's.
LoadDict(stored, own) ==
  IF stored = None THEN own
  ELSE IF own # None THEN merge_dictionaries(stored, own)
  ELSE stored

\* A load that skips the stored runs it cannot rebuild and takes the others.
LoadRunsSkipsMalformed(memory, runs) ==
  IF memory.isNone \/ ~memory.hasRuns THEN runs
  ELSE LET good == SelectSeq(memory.runs, LAMBDA m : m.ok)
       IN [n \in 1..Len(good) |-> WorkflowRun(good[n])]

\* A load that empties the memory when a stored run cannot be rebuilt.
LoadRunsClears(memory, runs) ==
  IF memory.isNone \/ ~memory.hasRuns THEN runs
  ELSE IF \E n \in 1..Len(memory.runs) : ~memory.runs[n].ok THEN <<>>
  ELSE [n \in 1..Len(memory.runs) |-> WorkflowRun(memory.runs[n])]

\* A load that adds the stored runs to the runs in memory.
LoadRunsAdded(memory, runs) ==
  IF memory.isNone \/ ~memory.hasRuns THEN runs
  ELSE IF \E n \in 1..Len(memory.runs) : ~memory.runs[n].ok THEN runs
  ELSE runs \o [n \in 1..Len(memory.runs) |-> WorkflowRun(memory.runs[n])]

\* The memory part of from_workflow_session: every stored run is rebuilt, and
\* a failure on any of them leaves self.memory.runs as it was.
LoadRuns(memory, runs) ==
  IF memory.isNone \/ ~memory.hasRuns THEN runs
  ELSE IF \E n \in 1..Len(memory.runs) : ~memory.runs[n].ok THEN runs
  ELSE [n \in 1..Len(memory.runs) |-> WorkflowRun(memory.runs[n])]

\* Workflow.from_workflow_session
from_workflow_session(w, session) ==
  [w EXCEPT
     !.session_id = IF w.session_id = "None" /\ session.session_id # "None"
                    THEN session.session_id ELSE @,
     !.workflow_id = IF w.workflow_id = "None" /\ session.workflow_id # "None"
                     THEN session.workflow_id ELSE @,
     !.user_id = IF w.user_id = "None" /\ session.user_id # "None"
                 THEN session.user_id ELSE @,
     !.name = IF session.workflow_data # None /\ w.name = "None"
                 /\ HasKey(session.workflow_data, "name")
              THEN session.workflow_data.m["name"].s ELSE @,
     !.workflow_data = LoadDict(session.workflow_data, w.workflow_data),
     !.user_data = LoadDict(session.user_data, w.user_data),
     !.session_name = IF session.session_data # None /\ w.session_name = "None"
                         /\ HasKey(session.session_data, "session_name")
                      THEN session.session_data.m["session_name"].s ELSE @,
     !.session_data = LoadDict(session.session_data, w.session_data),
     !.session_state = LoadDict(session.session_state, w.session_state),
     !.runs = LoadRuns(session.memory, w.runs)]

\* What the workflow keeps of a session it read or wrote: Workflow only ever
\* tests self._workflow_session for None and reads its session_id.
Cached(session) == IF session = NoSession THEN NoSession ELSE [session_id |-> session.session_id]

\* A read that empties the memory when the storage holds no session.
read_or_reset(w, st) ==
  LET session == StoreRead(st, w.session_id)
      cached == [w EXCEPT !.workflow_session = Cached(session)]
  IN IF session # NoSession THEN from_workflow_session(cached, session)
     ELSE [cached EXCEPT !.runs = <<>>]

\* A read that caches the session without loading it into the workflow.
read_without_load(w, st) == [w EXCEPT !.workflow_session = Cached(StoreRead(st, w.session_id))]

\* Workflow.read_from_storage
read_from_storage(w, st) ==
  LET session == StoreRead(st, w.session_id)
      cached == [w EXCEPT !.workflow_session = Cached(session)]
  IN IF session # NoSession THEN from_workflow_session(cached, session) ELSE cached

\* A write that puts the newest run in memory behind the runs the storage
\* holds at the time of the write.
write_behind_stored(w, st, heap, ok) ==
  LET built == get_workflow_session(w, heap)
      held == StoreRead(st, w.session_id)
      mine == built.session.memory.runs
      runs == IF held = NoSession \/ mine = <<>> THEN mine
              ELSE held.memory.runs \o <<mine[Len(mine)]>>
      up == StoreUpsert(st, [built.session EXCEPT !.memory.runs = runs], ok)
  IN [self |-> [built.self EXCEPT !.workflow_session = Cached(up.echo)], store |-> up.store]

\* Workflow.write_to_storage
write_to_storage(w, st, heap, ok) ==
  LET built == get_workflow_session(w, heap)
      up == StoreUpsert(st, built.session, ok)
  IN [self |-> [built.self EXCEPT !.workflow_session = Cached(up.echo)], store |-> up.store]

\* A session is cached and its id is the workflow's session_id.
CacheHit(w) ==
  w.workflow_session # NoSession /\ w.session_id # "None"
    /\ w.workflow_session.session_id = w.session_id

\* load_session without the test of the cached session.
load_session_uncached(w, st, heap, force, ok) ==
  LET rd == read_from_storage(w, st)
  IN IF rd.workflow_session # NoSession
     THEN [self |-> rd, store |-> st, ret |-> rd.session_id, calls |-> <<"read">>]
     ELSE LET wr == write_to_storage(rd, st, heap, ok)
          IN [self |-> wr.self, store |-> wr.store,
              ret |-> IF wr.self.workflow_session = NoSession THEN "raise"
                      ELSE wr.self.session_id,
              calls |-> <<"read", "upsert">>]

\* load_session without the check that the new session was created.
load_session_unchecked(w, st, heap, force, ok) ==
  IF CacheHit(w) /\ ~force
  THEN [self |-> w, store |-> st, ret |-> w.workflow_session.session_id, calls |-> <<>>]
  ELSE LET rd == read_from_storage(w, st)
       IN IF rd.workflow_session # NoSession
          THEN [self |-> rd, store |-> st, ret |-> rd.session_id, calls |-> <<"read">>]
          ELSE LET wr == write_to_storage(rd, st, heap, ok)
               IN [self |-> wr.self, store |-> wr.store, ret |-> wr.self.session_id,
                   calls |-> <<"read", "upsert">>]

\* Workflow.load_session: self and the storage afterwards, the value returned
\* ("raise" for the exception) and the storage calls made, in order.
load_session(w, st, heap, force, ok) ==
  IF CacheHit(w) /\ ~force
  THEN [self |-> w, store |-> st, ret |-> w.workflow_session.session_id, calls |-> <<>>]
  ELSE LET rd == read_from_storage(w, st)
       IN IF rd.workflow_session # NoSession
          THEN [self |-> rd, store |-> st, ret |-> rd.session_id, calls |-> <<"read">>]
          ELSE LET wr == write_to_storage(rd, st, heap, ok)
               IN [self |-> wr.self, store |-> wr.store,
                   ret |-> IF wr.self.workflow_session = NoSession THEN "raise"
                           ELSE wr.self.session_id,
                   calls |-> <<"read", "upsert">>]

\* ---------------------------------------------------------------- state
VARIABLES
  wf,         \* wf[i]: the fields of Workflow instance i
  storage,    \* the WorkflowStorage shared by the instances: session_id -> session
  response,   \* response[r]: the RunResponse object created by run r
  gen,        \* gen[r]: run r (with the runs that were between their read and their
              \* write when it read), and the generator it returned when it streams
  out,        \* out[r]: what run r has handed to its caller, in order
  nextRun,    \* uuid4 values handed out as run ids so far
  failures,   \* Store.upsert calls that returned None so far
  streak,     \* upserts in the current unbroken series of unforced load_session calls
  io          \* the last load_session, rename_session or delete_session call, when it was the last
              \* operation: what it returned and the storage calls it made

vars == <<wf, storage, response, gen, out, nextRun, failures, streak, io>>

Runs == 1..MaxRuns
\* The arguments of the r-th run_workflow call: every call passes its own.
CallArgs(r) == r

\* What the user's run() can produce. An envelope is a RunResponse; the ids
\* the user put on it are UserSet.
UserSet == "user"
Fragment ==
  {[env |-> TRUE, content |-> Str(<<"a">>)], [env |-> TRUE, content |-> Str(<<"b">>)],
   [env |-> TRUE, content |-> NotStr], [env |-> FALSE, content |-> NotStr]}
Envelopes == {f \in Fragment : f.env}
UserSeqs == UNION {[1..n -> Fragment] : n \in 0..MaxFrags}
Results ==
  [kind : {"stream"}, items : UserSeqs]
    \cup [kind : {"single"}, items : {<<e>> : e \in Envelopes}]
    \cup [kind : {"other"}, items : {<<>>}]

\* An item as the caller receives it.
Handed(f, run_id, session_id, workflow_id) ==
  [env |-> f.env, content |-> f.content,
   run_id |-> run_id, session_id |-> session_id, workflow_id |-> workflow_id]
Forwarded(f) == Handed(f, UserSet, UserSet, UserSet)

NoOp == [op |-> "None", inst |-> 0, arg |-> "None", ret |-> "None", calls |-> <<>>, force |-> FALSE, failed |-> FALSE, cached |-> FALSE]
NewStreak == [valid |-> TRUE, upserts |-> 0]
NoGen == [owner |-> 0, state |-> "unused", input |-> 0, items |-> <<>>, pos |-> 0,
          appended |-> 0, upserts |-> 0, stored |-> FALSE, cached |-> FALSE,
          concurrent |-> {}]
NoResponse == [run_id |-> 0, session_id |-> "None", workflow_id |-> "None",
               content |-> NotStr]

\* RunResponse(run_id=..., session_id=..., workflow_id=...)
RunResponse(run_id, session_id, workflow_id) ==
  [run_id |-> run_id, session_id |-> session_id, workflow_id |-> workflow_id,
   content |-> NotStr]

\* ---------------------------------------------------------------- construction
\* Workflow.__init__ with the field validators: ids as supplied, name set to
\* the given name or the class name, no session loaded, no run yet.
Workflow(session_id, workflow_id, user_id, session_name, workflow_data, user_data, session_data, session_state) ==
  [session_id |-> session_id, workflow_id |-> workflow_id, user_id |-> user_id,
   name |-> "Workflow", session_name |-> session_name,
   workflow_data |-> workflow_data, user_data |-> user_data,
   session_data |-> session_data, session_state |-> session_state,
   runs |-> <<>>, workflow_session |-> NoSession,
   run_id |-> 0, run_input |-> 0, run_response |-> 0, pc |-> "idle"]

\* A session left in the storage by an earlier process.
StoredRun(ok) == [ok |-> ok, input |-> 0, run_id |-> 0, content |-> Str(<<"b">>)]
StoredMemories ==
  {[isNone |-> FALSE, hasRuns |-> TRUE, runs |-> <<StoredRun(TRUE)>>],
   [isNone |-> FALSE, hasRuns |-> TRUE, runs |-> <<StoredRun(TRUE), StoredRun(FALSE)>>]}
StoredSession(memory) ==
  [session_id |-> "s1", workflow_id |-> "w1", user_id |-> "u0", memory |-> memory,
   workflow_data |-> M([k \in {"name"} |-> S("Stored")]),
   user_data |-> M([k \in {"b"} |-> S("p")]),
   session_data |-> M([k \in {"session_name", "a"} |->
                         IF k = "a" THEN M([j \in {"a"} |-> S("p")]) ELSE S("n0")]),
   session_state |-> M([k \in {"a", "b"} |-> S("p")])]

\* The two instances: instance 1 is built with its own dicts, instance 2 with
\* none, on the same session or on another one.
Workflows(same, session_name) ==
  [i \in Inst |->
     IF i = 1
     THEN Workflow("s1", "w1", "u1", session_name, None,
                   M([k \in {"a"} |-> S("l")]),
                   M([k \in {"a"} |-> M([j \in {"b"} |-> S("l")])]),
                   M([k \in {"a"} |-> S("l")]))
     ELSE Workflow(IF same THEN "s1" ELSE "s2", IF same THEN "w1" ELSE "w2",
                   "None", "None", None, None, None, EmptyDict)]

Start(workflows, first) ==
  /\ wf = workflows
  /\ storage = [sid \in SessionIds |-> IF sid = "s1" THEN first ELSE NoSession]
  /\ response = [r \in Runs |-> NoResponse]
  /\ gen = [r \in Runs |-> NoGen]
  /\ out = [r \in Runs |-> <<>>]
  /\ nextRun = 0
  /\ failures = 0
  /\ streak = NewStreak
  /\ io = NoOp

GoodMemory == [isNone |-> FALSE, hasRuns |-> TRUE, runs |-> <<StoredRun(TRUE)>>]

\* One workflow instance, on an empty storage or on one that holds its session.
Init ==
  \E first \in {NoSession, StoredSession(GoodMemory)} :
    Start(Workflows(TRUE, "None"), first)

\* The storage may fail an upsert, MaxFail times in a behaviour.
MayFail(ok) == ok \/ failures < MaxFail
Failed(calls, ok) == IF ~ok /\ \E n \in 1..Len(calls) : calls[n] = "upsert" THEN 1 ELSE 0
Idle(i) == wf[i].pc = "idle"

\* ---------------------------------------------------------------- load_session
LoadSession(i, force, ok) ==
  LET res == load_session(wf[i], storage, response, force, ok)
        up == Failed(res.calls, ok)
    IN /\ Idle(i)
       /\ MayFail(ok)
       /\ wf' = [wf EXCEPT ![i] = res.self]
       /\ storage' = res.store
       /\ failures' = failures + up
       /\ streak' = IF force THEN NewStreak
                    ELSE [valid |-> streak.valid /\ up = 0,
                          upserts |-> streak.upserts + (Len(res.calls) \div 2)]
       /\ io' = [op |-> "load_session", inst |-> i, arg |-> "None", ret |-> res.ret, calls |-> res.calls,
                 force |-> force, failed |-> up = 1, cached |-> CacheHit(wf[i])]
       /\ UNCHANGED <<response, gen, out, nextRun>>

\* ---------------------------------------------------------------- run_workflow
\* run_workflow up to the call of the user's run(): a fresh run_id, the
\* captured input, a fresh RunResponse, then read_from_storage.
RunStart(i) ==
  LET r == nextRun + 1
      input == CallArgs(r)
      w == [wf[i] EXCEPT !.run_id = r, !.run_input = input, !.run_response = r]
      rd == read_from_storage(w, storage)
  IN /\ Idle(i)
     /\ nextRun < MaxRuns
     /\ nextRun' = r
     /\ response' = [response EXCEPT ![r] = RunResponse(r, wf[i].session_id, wf[i].workflow_id)]
     /\ wf' = [wf EXCEPT ![i] = [rd EXCEPT !.pc = "user"]]
     /\ gen' = [gen EXCEPT ![r] = [NoGen EXCEPT !.owner = i, !.state = "user", !.input = input,
                                     !.stored = StoreRead(storage, wf[i].session_id) # NoSession,
                                     !.cached = rd.workflow_session # NoSession,
                                     !.concurrent = {x \in Runs : gen[x].state = "user"}]]
     /\ streak' = NewStreak
     /\ io' = NoOp
     /\ UNCHANGED <<storage, out, failures>>

\* The generator branch: the content of the run_response is set to "" and
\* the wrapping generator is returned, not yet started.
ReturnGenerator(w, st, heap) ==
  [self |-> w, store |-> st, heap |-> [heap EXCEPT ![w.run_response].content = Str(<<>>)],
   ret |-> <<>>, calls |-> <<"return">>, state |-> "suspended"]

\* A single-result branch that writes before it adds the run to the memory.
ReturnSingleWriteFirst(w, st, heap, item, ok) ==
  LET stamped == Handed(item, w.run_id, w.session_id, w.workflow_id)
      heap1 == IF item.content.isStr
               THEN [heap EXCEPT ![w.run_response].content = item.content] ELSE heap
      wr == write_to_storage(w, st, heap1, ok)
  IN [self |-> [wr.self EXCEPT !.runs = add_run(@, LiveRun(w.run_input, w.run_response))],
      store |-> wr.store, heap |-> heap1, ret |-> <<stamped>>,
      calls |-> <<"upsert", "add_run", "return">>, state |-> "returned"]

\* The single-result branch: stamp the result, copy a str content, add the
\* run to the memory, write, return the result.
ReturnSingle(w, st, heap, item, ok) ==
  LET stamped == Handed(item, w.run_id, w.session_id, w.workflow_id)
      heap1 == IF item.content.isStr
               THEN [heap EXCEPT ![w.run_response].content = item.content] ELSE heap
      w1 == [w EXCEPT !.runs = add_run(@, LiveRun(w.run_input, w.run_response))]
      wr == write_to_storage(w1, st, heap1, ok)
  IN [self |-> wr.self, store |-> wr.store, heap |-> heap1, ret |-> <<stamped>>,
      calls |-> <<"add_run", "upsert", "return">>, state |-> "returned"]

\* A branch for other results that records the run all the same.
ReturnOtherRecorded(w, st, heap) ==
  LET wr == write_to_storage([w EXCEPT !.runs = add_run(@, LiveRun(w.run_input, w.run_response))],
                             st, heap, TRUE)
  IN [self |-> wr.self, store |-> wr.store, heap |-> heap, ret |-> <<>>,
      calls |-> <<"add_run", "upsert", "return">>, state |-> "none"]

\* Any other result: a warning, None is returned.
ReturnOther(w, st, heap) ==
  [self |-> w, store |-> st, heap |-> heap, ret |-> <<>>, calls |-> <<"return">>,
   state |-> "none"]

\* Store.upsert calls and add_run calls in a list of calls.
Count(calls, what) == Cardinality({n \in 1..Len(calls) : calls[n] = what})

\* run_workflow from the return of the user's run() on, by the type of the
\* result: a generator, a RunResponse, or anything else.
RunReturn(i, res, ok) ==
  LET w == wf[i]
      r == CHOOSE x \in Runs : gen[x].owner = i /\ gen[x].state = "user"
      done == IF res.kind = "stream" THEN ReturnGenerator(w, storage, response)
              ELSE IF res.kind = "single"
              THEN ReturnSingle(w, storage, response, res.items[1], ok)
              ELSE ReturnOther(w, storage, response)
  IN /\ w.pc = "user"
     /\ MayFail(ok)
     /\ wf' = [wf EXCEPT ![i] = [done.self EXCEPT !.pc = "idle"]]
     /\ storage' = done.store
     /\ response' = done.heap
     /\ gen' = [gen EXCEPT ![r] = [@ EXCEPT !.state = done.state, !.items = res.items,
                                              !.appended = Count(done.calls, "add_run"),
                                              !.upserts = Count(done.calls, "upsert")]]
     /\ out' = [out EXCEPT ![r] = done.ret]
     /\ failures' = failures + Failed(done.calls, ok)
     /\ streak' = NewStreak
     /\ io' = NoOp
     /\ UNCHANGED nextRun

\* One step of result_generator for the next item of the user's sequence:
\* an envelope is stamped with the workflow's current ids and a str content
\* is added to the workflow's current run_response (a TypeError when that
\* content is not a str); the item is then yielded.
YieldItem(w, heap, item) ==
  LET cur == heap[w.run_response].content
      raises == item.env /\ item.content.isStr /\ ~cur.isStr
  IN [raises |-> raises,
      heap |-> IF item.env /\ item.content.isStr /\ cur.isStr
               THEN [heap EXCEPT ![w.run_response].content = Str(cur.str \o item.content.str)]
               ELSE heap,
      item |-> IF item.env THEN Handed(item, w.run_id, w.session_id, w.workflow_id)
               ELSE Forwarded(item)]

\* The end of result_generator, after the user's sequence is exhausted: add
\* the run to the memory, write to the storage.
Finalize(w, st, heap, ok) ==
  write_to_storage([w EXCEPT !.runs = add_run(@, LiveRun(w.run_input, w.run_response))],
                   st, heap, ok)

\* A loop that stops one item early.
HasNextButLast(g) == g.pos + 1 < Len(g.items)

\* "for item in result": the user's sequence has a next item.
HasNext(g) == g.pos < Len(g.items)

\* The caller pulls the next item from the generator of run r.
Pull(r, ok) ==
    LET g == gen[r]
        i == g.owner
        w == wf[i]
        more == HasNext(g)
        y == YieldItem(w, response, g.items[g.pos + 1])
        fin == Finalize(w, storage, response, ok)
        calls == IF more THEN <<>> ELSE <<"add_run", "upsert">>
    IN /\ g.state = "suspended"
       /\ Idle(i)
       /\ MayFail(ok)
       /\ gen' = [gen EXCEPT ![r] =
                    IF more /\ y.raises THEN [@ EXCEPT !.state = "raised"]
                    ELSE IF more THEN [@ EXCEPT !.pos = @ + 1]
                    ELSE [@ EXCEPT !.state = "finished",
                                   !.appended = @ + Count(calls, "add_run"),
                                   !.upserts = @ + Count(calls, "upsert")]]
       /\ out' = IF more /\ ~y.raises THEN [out EXCEPT ![r] = Append(@, y.item)] ELSE out
       /\ response' = IF more /\ ~y.raises THEN y.heap ELSE response
       /\ wf' = IF more THEN wf ELSE [wf EXCEPT ![i] = fin.self]
       /\ storage' = IF more THEN storage ELSE fin.store
       /\ failures' = failures + Failed(calls, ok)
       /\ streak' = NewStreak
       /\ io' = NoOp
       /\ UNCHANGED nextRun

\* ---------------------------------------------------------------- rename, delete
Names == {"n2"}

\* A rename that stores {"session_name": name} as the record's session_data.
RenameSessionDropsData(i, session_id, name, ok) ==
    LET workflow_session == StoreRead(storage, session_id)
        found == workflow_session # NoSession
        renamed == [workflow_session EXCEPT
                      !.session_data = DictSet(EmptyDict, "session_name", S(name))]
        calls == IF found THEN <<"read", "upsert">> ELSE <<"read">>
    IN /\ Idle(i)
       /\ MayFail(ok)
       /\ storage' = IF found THEN StoreUpsert(storage, renamed, ok).store ELSE storage
       /\ failures' = failures + Failed(calls, ok)
       /\ streak' = NewStreak
       /\ io' = [op |-> "rename_session", inst |-> i, arg |-> session_id,
                 ret |-> IF found THEN "None" ELSE "raise", calls |-> calls,
                 force |-> FALSE, failed |-> Failed(calls, ok) = 1, cached |-> FALSE]
       /\ UNCHANGED <<wf, response, gen, out, nextRun>>

\* Workflow.rename_session
RenameSession(i, session_id, name, ok) ==
    LET workflow_session == StoreRead(storage, session_id)
        found == workflow_session # NoSession
        renamed == [workflow_session EXCEPT
                      !.session_data = DictSet(@, "session_name", S(name))]
        calls == IF found THEN <<"read", "upsert">> ELSE <<"read">>
    IN /\ Idle(i)
       /\ MayFail(ok)
       /\ storage' = IF found THEN StoreUpsert(storage, renamed, ok).store ELSE storage
       /\ failures' = failures + Failed(calls, ok)
       /\ streak' = NewStreak
       /\ io' = [op |-> "rename_session", inst |-> i, arg |-> session_id,
                 ret |-> IF found THEN "None" ELSE "raise", calls |-> calls,
                 force |-> FALSE, failed |-> Failed(calls, ok) = 1, cached |-> FALSE]
       /\ UNCHANGED <<wf, response, gen, out, nextRun>>

\* A delete that also drops the session the instance has cached.
DeleteSessionInvalidates(i, session_id) ==
  /\ Idle(i)
  /\ storage' = StoreDelete(storage, session_id)
  /\ wf' = [wf EXCEPT ![i].workflow_session = NoSession]
  /\ streak' = NewStreak
  /\ io' = [NoOp EXCEPT !.op = "delete_session", !.inst = i, !.arg = session_id,
                        !.calls = <<"delete">>]
  /\ UNCHANGED <<response, gen, out, nextRun, failures>>

\* Workflow.delete_session
DeleteSession(i, session_id) ==
  /\ Idle(i)
  /\ storage' = StoreDelete(storage, session_id)
  /\ streak' = NewStreak
  /\ io' = [NoOp EXCEPT !.op = "delete_session", !.inst = i, !.arg = session_id,
                        !.calls = <<"delete">>]
  /\ UNCHANGED <<wf, response, gen, out, nextRun, failures>>

\* The runs of one instance, on a storage that does not fail.
Solo == {1}

Next ==
  \/ \E i \in Solo : RunStart(i)
  \/ \E i \in Solo, res \in Results : RunReturn(i, res, TRUE)
  \/ \E r \in Runs : Pull(r, TRUE)

Spec == Init /\ [][Next]_vars

\* One instance on a storage that may fail, with load_session, rename_session
\* and delete_session; the user's run() returns one RunResponse or something
\* else. The storage starts empty or with a session whose stored runs are all
\* well-formed or not.
PlainResults == {res \in Results : res.kind # "stream"}

InitSession ==
  \E session_name \in {"None", "n1"},
     first \in {NoSession} \cup {StoredSession(m) : m \in StoredMemories} :
    Start(Workflows(TRUE, session_name), first)

NextSession ==
  \/ \E i \in Solo, force \in BOOLEAN, ok \in BOOLEAN : LoadSession(i, force, ok)
  \/ \E i \in Solo : RunStart(i)
  \/ \E i \in Solo, res \in PlainResults, ok \in BOOLEAN : RunReturn(i, res, ok)
  \/ \E i \in Solo, session_id \in SessionIds, name \in Names, ok \in BOOLEAN : RenameSession(i, session_id, name, ok)
  \/ \E i \in Solo, session_id \in SessionIds : DeleteSession(i, session_id)

SpecSession == InitSession /\ [][NextSession]_vars

\* Two instances built with the same session_id on one storage that may fail,
\* with load_session and runs.
NextShared ==
  \/ \E i \in Inst, force \in BOOLEAN, ok \in BOOLEAN : LoadSession(i, force, ok)
  \/ \E i \in Inst : RunStart(i)
  \/ \E i \in Inst, res \in PlainResults, ok \in BOOLEAN : RunReturn(i, res, ok)

SpecShared == Init /\ [][NextShared]_vars

RECURSIVE DictsOf(_, _)
\* The dicts of nesting depth up to d with leaves v: key "a" is absent, v or
\* a dict one level less deep, key "b" is absent or v.
DictsOf(d, v) ==
  IF d = 0 THEN {}
  ELSE LET under == {S(v)} \cup DictsOf(d - 1, v)
       IN {M(f) : f \in UNION {[ks -> under \cup {S(v)}] : ks \in SUBSET Keys}}
            \cap {x \in {M(f) : f \in UNION {[ks -> under \cup {S(v)}] : ks \in SUBSET Keys}} :
                    "b" \in DOMAIN x.m => x.m["b"] = S(v)}

Fields == {"workflow_data", "user_data", "session_data", "session_state"}

\* One instance and a stored session that differ in one of the four dicts:
\* the stored one is None or a dict with leaves "p", the workflow's is None
\* (session_state: {}) or a dict with leaves "l".
InitMerge ==
  \E field \in Fields, P \in {None} \cup DictsOf(MaxDepth, "p"),
     L \in {None} \cup DictsOf(MaxDepth, "l") :
    LET plain == Workflow("s1", "w1", "u1", "None", None, None, None, EmptyDict)
        own == IF L = None /\ field = "session_state" THEN EmptyDict ELSE L
        stored == [session_id |-> "s1", workflow_id |-> "w1", user_id |-> "u0",
                   memory |-> GoodMemory, workflow_data |-> None, user_data |-> None,
                   session_data |-> None, session_state |-> None]
    IN Start([i \in Inst |-> [plain EXCEPT ![field] = own]], [stored EXCEPT ![field] = P])

NextMerge ==
  \E force \in BOOLEAN : LoadSession(1, force, TRUE)

SpecMerge == InitMerge /\ [][NextMerge]_vars

\* ---------------------------------------------------------------- identity
\* set_workflow_id: the value given, or a fresh uuid4 when it is None or "".
set_workflow_id(v, fresh) == IF v \notin {"None", ""} THEN v ELSE fresh

\* A validator that replaces None only.
set_session_id_as_given(v, fresh) == IF v # "None" THEN v ELSE fresh

\* set_session_id: the value given, or a fresh uuid4 when it is None or "".
set_session_id(v, fresh) == IF v \notin {"None", ""} THEN v ELSE fresh

\* The uuid4 values a construction can draw: ids no session or workflow has.
FreshSessionIds == {"s2"}
FreshWorkflowIds == {"w0"}

\* Workflow(**data): the validators run on the ids given (validate_default
\* makes them run on a missing id too), then __init__.
Construct(i) ==
  \E sid \in FreshSessionIds, wid \in FreshWorkflowIds :
    /\ wf[i].pc = "new"
    /\ wf' = [wf EXCEPT ![i].session_id = set_session_id(@, sid),
                        ![i].workflow_id = set_workflow_id(@, wid),
                        ![i].pc = "idle"]
    /\ streak' = NewStreak
    /\ io' = NoOp
    /\ UNCHANGED <<storage, response, gen, out, nextRun, failures>>

\* The data one instance is constructed from: session_id and workflow_id
\* given, not given, or given as "", on a storage that holds the session "s1"
\* of workflow "w1".
InitIdentity ==
  \E ids \in {<<"None", "w1">>, <<"", "None">>, <<"s1", "">>} :
    LET data == [Workflows(TRUE, "None")[1] EXCEPT !.session_id = ids[1],
                                                   !.workflow_id = ids[2], !.pc = "new"]
    IN Start([Workflows(TRUE, "None") EXCEPT ![1] = data], StoredSession(GoodMemory))

\* Results of at most one item: the ids do not depend on what is yielded.
ShortResults == {res \in Results : Len(res.items) <= 1}

NextIdentity ==
  \/ \E i \in Solo : Construct(i)
  \/ \E i \in Solo, force \in BOOLEAN : LoadSession(i, force, TRUE)
  \/ \E i \in Solo : RunStart(i)
  \/ \E i \in Solo, res \in ShortResults : RunReturn(i, res, TRUE)
  \/ \E r \in Runs : Pull(r, TRUE)

SpecIdentity == InitIdentity /\ [][NextIdentity]_vars

\* ---------------------------------------------------------------- properties
StoredRuns(sid) == IF storage[sid] = NoSession THEN <<>> ELSE storage[sid].memory.runs
\* The runs that went through finalization: a drained generator, a returned result.
Completed == {r \in Runs : gen[r].state \in {"finished", "returned"}}
Streams == {r \in Runs : gen[r].state \in {"suspended", "finished", "raised"}}
\* The records of a history that were made by a run of this behaviour.
Recorded(runs) == {n \in 1..Len(runs) : runs[n].run_id # 0}
\* A WorkflowRun in memory with the content its response holds now.
Resolve(run) == [run EXCEPT !.content = IF run.ref # 0 THEN response[run.ref].content ELSE @,
                            !.ref = 0]
Rebuilt(stored) == [n \in 1..Len(stored) |-> WorkflowRun(stored[n])]

RECURSIVE Aggregate(_)
\* The str contents of the envelopes of a sequence, concatenated in order.
Aggregate(items) ==
  IF items = <<>> THEN <<>>
  ELSE (IF Head(items).env /\ Head(items).content.isStr THEN Head(items).content.str ELSE <<>>)
         \o Aggregate(Tail(items))

\* C1: a streaming run is finalized (one WorkflowRun added to the memory, then
\* one write to the storage) at most once, and only by the pull that finds the
\* user's sequence exhausted, after every fragment has been yielded; a
\* generator that is not drained has added no run and made no upsert, and the
\* memory and the storage hold one record per finalized run.
C1_FinalizedOnceAfterDrain ==
  /\ \A r \in Streams :
       /\ gen[r].appended = gen[r].upserts
       /\ gen[r].appended = (IF gen[r].state = "finished" THEN 1 ELSE 0)
       /\ gen[r].state = "finished" =>
            gen[r].pos = Len(gen[r].items) /\ Len(out[r]) = Len(gen[r].items)
  /\ Cardinality(Recorded(StoredRuns("s1"))) = Cardinality(Completed)
  /\ Cardinality(Recorded(wf[1].runs)) = Cardinality(Completed)

\* A generator abandoned after 1 of its fragments, and another one drained.
C1_Witness ==
  \E r1, r2 \in Runs :
    /\ gen[r1].state = "suspended" /\ gen[r1].pos = 1 /\ Len(gen[r1].items) = MaxFrags
    /\ gen[r2].state = "finished" /\ Len(gen[r2].items) = MaxFrags

\* C2: every envelope handed to the caller carries the run_id of the
\* run_workflow call that produced it and the session_id and workflow_id of
\* the instance.
C2_EnvelopeCarriesItsRun ==
  \A r \in Runs : \A n \in 1..Len(out[r]) :
    out[r][n].env =>
      /\ out[r][n].run_id = r
      /\ out[r][n].session_id = wf[gen[r].owner].session_id
      /\ out[r][n].workflow_id = wf[gen[r].owner].workflow_id

\* C3 as stated: when the user's run() is invoked the storage holds a session
\* for the instance's session_id.
C3_SessionExistsAtInvocation ==
  \A i \in Inst : wf[i].pc = "user" => StoreRead(storage, wf[i].session_id) # NoSession

\* C3, amended: when the user's run() is invoked the storage has been read and
\* nothing written: a session that was found is cached and loaded (its runs
\* are the memory, its session_state keys are in the workflow's), and when
\* none was found none is cached and the storage still holds none.
C3_SessionReadAtInvocation ==
  \A i \in Inst : wf[i].pc = "user" =>
    LET session == StoreRead(storage, wf[i].session_id)
        r == wf[i].run_id
    IN /\ gen[r].upserts = 0
       /\ gen[r].stored = (session # NoSession)
       /\ wf[i].workflow_session = Cached(session)
       /\ session # NoSession =>
            /\ wf[i].runs = Rebuilt(session.memory.runs)
            /\ DOMAIN session.session_state.m \subseteq DOMAIN wf[i].session_state.m

\* The user's run() is invoked on a storage that holds no session.
C3_Witness ==
  \E i \in Inst : wf[i].pc = "user" /\ StoreRead(storage, wf[i].session_id) = NoSession
                  /\ wf[i].workflow_session = NoSession

\* C4: no generator raises, and once a generator is drained the content of
\* the run's RunResponse is the concatenation of the str contents of the
\* envelopes the user yielded, every fragment was forwarded in order, and the
\* memory holds a run with that content.
C4_DrainedContentIsConcatenation ==
  \A r \in Runs :
    /\ gen[r].state # "raised"
    /\ gen[r].state = "finished" =>
         /\ response[r].content = Str(Aggregate(gen[r].items))
         /\ Len(out[r]) = Len(gen[r].items)
         /\ \A n \in 1..Len(out[r]) :
              out[r][n].env = gen[r].items[n].env /\ out[r][n].content = gen[r].items[n].content
         /\ \E n \in 1..Len(wf[gen[r].owner].runs) :
              LET run == Resolve(wf[gen[r].owner].runs[n])
              IN run.run_id = r /\ run.content = Str(Aggregate(gen[r].items))

\* C5: when the user's run() returns a RunResponse, the step that returns it
\* adds exactly one WorkflowRun (this call's input, this run's RunResponse) to
\* the memory, writes the session with that run to the storage, hands back
\* the result stamped with the run's ids, and leaves the RunResponse content
\* equal to the result's str content, unset when that is not a str.
C5_SingleResultFinalized ==
  [][\A r \in Runs :
       gen[r].state = "user" /\ gen'[r].state = "returned" =>
         LET i == gen[r].owner
             item == gen'[r].items[1]
         IN /\ wf'[i].runs = Append(wf[i].runs, LiveRun(CallArgs(r), r))
            /\ StoredRuns(wf[i].session_id)' =
                 [n \in 1..Len(wf'[i].runs) |-> RunToDict(wf'[i].runs[n], response')]
            /\ gen'[r].appended = 1 /\ gen'[r].upserts = 1
            /\ out'[r] = <<Handed(item, r, wf[i].session_id, wf[i].workflow_id)>>
            /\ response'[r].content = (IF item.content.isStr THEN item.content ELSE NotStr)
            /\ wf'[i].pc = "idle"]_vars

\* Two single results returned, one with a str content and one without.
C5_Witness ==
  \E r1, r2 \in Runs :
    /\ gen[r1].state = "returned" /\ gen[r1].items[1].content.isStr
    /\ gen[r2].state = "returned" /\ ~gen[r2].items[1].content.isStr
    /\ response[r1].content = gen[r1].items[1].content /\ response[r2].content = NotStr

\* C6: when the user's run() returns neither a RunResponse nor a generator,
\* the step returns nothing, without raising, leaves the memory as the
\* pre-run read left it and makes no storage call.
C6_OtherResultNotRecorded ==
  [][\A r \in Runs :
       gen[r].state = "user" /\ gen'[r].state = "none" =>
         LET i == gen[r].owner
         IN /\ wf'[i].runs = wf[i].runs
            /\ storage' = storage
            /\ out'[r] = <<>>
            /\ gen'[r].appended = 0 /\ gen'[r].upserts = 0
            /\ wf'[i].pc = "idle"]_vars

\* A run that returned something else, on an instance whose memory holds runs.
C6_Witness ==
  \E r \in Runs : gen[r].state = "none" /\ wf[gen[r].owner].runs # <<>>
                  /\ out[r] = <<>> /\ gen[r].upserts = 0

\* Instance i reads the storage in this step: run_workflow starts, or
\* load_session goes past the cached session.
Reads(i) ==
  \/ wf[i].pc = "idle" /\ wf'[i].pc = "user"
  \/ io'.op = "load_session" /\ io'.inst = i /\ io'.calls # <<>>

\* C7: an unforced load_session on an instance whose cached session has the
\* workflow's session_id returns that id and makes no storage call; and in a
\* series of unforced load_session calls on instances built with the same
\* session_id, on a storage whose upsert works, every call returns that id
\* and at most one upsert is made in all.
C7_CachedSessionShortCircuits ==
  /\ io.op = "load_session" /\ ~io.force /\ io.cached =>
       io.calls = <<>> /\ io.ret = wf[io.inst].session_id
  /\ streak.valid /\ (\A i, j \in Inst : wf[i].session_id = wf[j].session_id) =>
       /\ streak.upserts <= 1
       /\ io.op = "load_session" /\ ~io.force => io.ret = wf[io.inst].session_id

\* Both instances hold the session, one upsert was made in the series, and the
\* last call returned from the cache.
C7_Witness ==
  /\ io.op = "load_session" /\ ~io.force /\ io.cached /\ io.calls = <<>>
  /\ streak.valid /\ streak.upserts = 1
  /\ \A i \in Inst : wf[i].workflow_session = [session_id |-> "s1"]

\* C8 as stated: the user's run() is not invoked while no session could be
\* created: after an upsert returned None, with no session in the storage and
\* none cached, no run reaches the user's function.
C8_RunAbortedWithoutSession ==
  \A i \in Inst :
    ~(/\ wf[i].pc = "user"
      /\ failures > 0
      /\ StoreRead(storage, wf[i].session_id) = NoSession
      /\ wf[i].workflow_session = NoSession)

\* C8, amended: a load_session whose read finds nothing and whose upsert
\* returns None raises instead of returning a session_id, leaving no session
\* cached or stored; run_workflow does not call load_session and makes no
\* upsert before the user's run(), so it is not aborted.
C8_FailedCreateRaises ==
  /\ io.op = "load_session" =>
       /\ io.failed = (io.ret = "raise")
       /\ io.failed =>
            /\ io.calls = <<"read", "upsert">>
            /\ wf[io.inst].workflow_session = NoSession
            /\ StoreRead(storage, wf[io.inst].session_id) = NoSession
       /\ ~io.failed => io.ret = wf[io.inst].session_id
  /\ \A r \in Runs : gen[r].state = "user" => gen[r].upserts = 0 /\ gen[r].cached = gen[r].stored

\* A load_session that raised.
C8_Witness ==
  /\ io.op = "load_session" /\ io.failed /\ io.ret = "raise"
  /\ wf[io.inst].workflow_session = NoSession

RECURSIVE MergedAs(_, _, _)
\* R holds every key of P and of L: a key of P alone with P's value, a key of
\* L alone with L's value, a key of both with a dict on both sides merged by
\* the same rule, any other key of both with L's value.
MergedAs(R, P, L) ==
  /\ DOMAIN R.m = DOMAIN P.m \cup DOMAIN L.m
  /\ \A k \in DOMAIN R.m :
       IF k \notin DOMAIN L.m THEN R.m[k] = P.m[k]
       ELSE IF k \notin DOMAIN P.m THEN R.m[k] = L.m[k]
       ELSE IF IsDict(P.m[k]) /\ IsDict(L.m[k]) THEN MergedAs(R.m[k], P.m[k], L.m[k])
       ELSE R.m[k] = L.m[k]

AsDict(d) == IF d = None THEN EmptyDict ELSE d
LoadedAs(R, P, L) == MergedAs(AsDict(R), AsDict(P), AsDict(L)) /\ (R = None => P = None /\ L = None)

\* C9: a step that loads a stored session leaves each of workflow_data,
\* user_data, session_data and session_state equal to the stored dict merged
\* with the workflow's own: the workflow's value wins on a shared key unless
\* both values are dicts, which are merged by the same rule; keys of one side
\* only are kept.
C9_LoadMergesDicts ==
  [][\A i \in Inst :
       LET session == StoreRead(storage, wf[i].session_id)
       IN Reads(i) /\ session # NoSession =>
            /\ LoadedAs(wf'[i].workflow_data, session.workflow_data, wf[i].workflow_data)
            /\ LoadedAs(wf'[i].user_data, session.user_data, wf[i].user_data)
            /\ LoadedAs(wf'[i].session_data, session.session_data, wf[i].session_data)
            /\ LoadedAs(wf'[i].session_state, session.session_state, wf[i].session_state)]_vars

\* A loaded dict merged three levels deep: the third level holds a key of the
\* workflow and a key of the storage.
C9_Witness ==
  \E field \in Fields :
    LET d == wf[1][field]
    IN /\ io.op = "load_session" /\ io.calls = <<"read">>
       /\ HasKey(d, "a") /\ HasKey(d.m["a"], "a") /\ IsDict(d.m["a"].m["a"])
       /\ d.m["a"].m["a"].m = [k \in {"a", "b"} |-> IF k = "a" THEN S("l") ELSE S("p")]
       /\ HasKey(d, "b") /\ d.m["b"] = S("l")

\* The stored memory carries runs that can all be rebuilt.
CarriesRuns(memory) ==
  ~memory.isNone /\ memory.hasRuns /\ \A n \in 1..Len(memory.runs) : memory.runs[n].ok

\* C10: a step that loads a stored session whose memory carries runs leaves
\* the runs in memory equal to the stored runs, one for one and in order,
\* whatever was in memory before.
C10_LoadReplacesRuns ==
  [][\A i \in Inst :
       LET session == StoreRead(storage, wf[i].session_id)
       IN Reads(i) /\ session # NoSession /\ CarriesRuns(session.memory) =>
            wf'[i].runs = Rebuilt(session.memory.runs)]_vars

\* After a load the memory is the stored history, and the record of a run
\* that completed on the instance, which the storage never got, is gone.
C10_Witness ==
  /\ io.op = "load_session" /\ io.calls = <<"read">>
  /\ wf[1].runs # <<>> /\ wf[1].runs = Rebuilt(StoredRuns("s1"))
  /\ \E r \in Runs : gen[r].state = "returned" /\ gen[r].owner = 1
                     /\ \A n \in 1..Len(wf[1].runs) : wf[1].runs[n].run_id # r

\* C11: rename_session(session_id, name) on an id the storage holds no session
\* for raises and makes no upsert, the storage staying as it was; on a stored
\* session it upserts that session with session_data["session_name"] = name
\* and every other field and session_data key as stored; the instance itself
\* is not touched.
C11_RenameSetsNameOnly ==
  [][io'.op = "rename_session" =>
       LET sid == io'.arg
           session == StoreRead(storage, sid)
       IN /\ wf' = wf
          /\ session = NoSession =>
               io'.ret = "raise" /\ io'.calls = <<"read">> /\ storage' = storage
          /\ session # NoSession =>
               /\ io'.ret = "None" /\ io'.calls = <<"read", "upsert">>
               /\ \E name \in Names :
                    storage' = IF io'.failed THEN storage
                               ELSE [storage EXCEPT ![sid].session_data.m =
                                       [k \in DOMAIN @ \cup {"session_name"} |->
                                          IF k = "session_name" THEN S(name) ELSE @[k]]]]_vars

\* A stored session renamed: the new name is in the storage next to the
\* session_data key the session had before.
C11_Witness ==
  /\ io.op = "rename_session" /\ io.ret = "None" /\ ~io.failed
  /\ storage[io.arg] # NoSession
  /\ storage[io.arg].session_data.m["session_name"] = S("n2")
  /\ HasKey(storage[io.arg].session_data, "a")

\* C12: delete_session(session_id) removes that session from the storage and
\* leaves the instance as it was (cached session, runs in memory, the four
\* dicts, the ids); an unforced load_session that follows it on an instance
\* whose cached session has its session_id returns that id from the cache,
\* with no storage call, although the storage holds the session no more.
C12_DeleteLeavesInstance ==
  [][/\ io'.op = "delete_session" =>
          /\ wf' = wf
          /\ storage' = [storage EXCEPT ![io'.arg] = NoSession]
          /\ response' = response /\ out' = out
     /\ (/\ io.op = "delete_session" /\ io'.op = "load_session" /\ ~io'.force
         /\ CacheHit(wf[io'.inst])) =>
          /\ io'.calls = <<>>
          /\ io'.ret = wf[io'.inst].session_id
          /\ wf' = wf
          /\ storage' = storage]_vars

\* The instance's own session was deleted and the load_session after it
\* returned from the cache: the storage holds no session, the instance still
\* has one cached and its runs in memory.
C12_Witness ==
  /\ io.op = "load_session" /\ ~io.force /\ io.cached /\ io.calls = <<>>
  /\ io.ret = wf[1].session_id
  /\ StoreRead(storage, wf[1].session_id) = NoSession
  /\ wf[1].workflow_session # NoSession
  /\ wf[1].runs # <<>>

Given(v) == v \notin {"None", ""}
\* The run ids handed out so far.
Allocated == {r \in Runs : gen[r].state # "unused"}

\* C13: construction leaves workflow_id and session_id equal to the value
\* given, or to a fresh non-empty one when none was given; no later step (load,
\* run start, return, pull with its final write) changes them; every run
\* start sets a run_id no earlier run had; and from construction on the two
\* ids are non-empty, as is run_id while a run is under way.
C13_IdsFixedRunIdFresh ==
  [][\A i \in Solo :
       /\ wf[i].pc = "new" /\ wf'[i].pc # "new" =>
            /\ Given(wf[i].session_id) => wf'[i].session_id = wf[i].session_id
            /\ Given(wf[i].workflow_id) => wf'[i].workflow_id = wf[i].workflow_id
            /\ ~Given(wf[i].session_id) =>
                 wf'[i].session_id \in FreshSessionIds /\ storage[wf'[i].session_id] = NoSession
            /\ ~Given(wf[i].workflow_id) => wf'[i].workflow_id \in FreshWorkflowIds
       /\ wf[i].pc # "new" =>
            wf'[i].session_id = wf[i].session_id /\ wf'[i].workflow_id = wf[i].workflow_id
       /\ wf[i].pc = "idle" /\ wf'[i].pc = "user" =>
            wf'[i].run_id \notin Allocated \cup {0, wf[i].run_id}
       /\ wf'[i].pc # "new" => Given(wf'[i].session_id) /\ Given(wf'[i].workflow_id)
       /\ wf'[i].pc = "user" => wf'[i].run_id # 0]_vars

\* An instance constructed without a workflow_id has loaded the stored
\* session of another workflow_id and completed two runs, the second of them
\* a drained generator: it still has its own workflow_id.
C13_Witness ==
  /\ wf[1].session_id = "s1" /\ wf[1].workflow_id \in FreshWorkflowIds
  /\ wf[1].workflow_session # NoSession
  /\ gen[1].state = "returned" /\ gen[2].state = "finished" /\ wf[1].run_id = 2
  /\ \E n \in 1..Len(wf[1].runs) : wf[1].runs[n].run_id = 0

\* The stored memory carries runs of which one at least cannot be rebuilt.
Malformed(memory) ==
  ~memory.isNone /\ memory.hasRuns /\ \E n \in 1..Len(memory.runs) : ~memory.runs[n].ok
\* The load of this step did not raise.
LoadReturned(i) ==
  \/ wf[i].pc = "idle" /\ wf'[i].pc = "user"
  \/ io'.op = "load_session" /\ io'.ret = wf[i].session_id

\* C14: a step that loads a stored session whose memory has an entry that
\* cannot be rebuilt does not raise and leaves the runs in memory exactly as
\* they were before the load.
C14_FailedHistoryLeavesMemory ==
  [][\A i \in Inst :
       LET session == StoreRead(storage, wf[i].session_id)
       IN Reads(i) /\ session # NoSession /\ Malformed(session.memory) =>
            LoadReturned(i) /\ wf'[i].runs = wf[i].runs]_vars

\* A forced load_session found a stored history with an entry that cannot be
\* rebuilt while the memory held the record of a run the storage never got:
\* the memory still holds that record alone.
C14_Witness ==
  /\ io.op = "load_session" /\ io.force /\ io.calls = <<"read">>
  /\ Malformed(storage["s1"].memory)
  /\ Len(wf[1].runs) = 1 /\ wf[1].runs[1].run_id = 1

\* C15 as stated: a step that loads a stored session whose memory has an entry
\* that cannot be rebuilt leaves in memory every stored entry that can be, in
\* order.
C15_LoadSkipsMalformed ==
  [][\A i \in Inst :
       LET session == StoreRead(storage, wf[i].session_id)
       IN Reads(i) /\ session # NoSession /\ Malformed(session.memory) =>
            wf'[i].runs = Rebuilt(SelectSeq(session.memory.runs, LAMBDA m : m.ok))]_vars

\* C15, amended: a step that loads a stored session whose memory has an entry
\* that cannot be rebuilt takes no entry of that history, the well-formed ones
\* included: the runs in memory stay as they were, while the rest of the load
\* goes on (the session is cached, its session_state and user_data are merged
\* into the workflow's, an unset session_name is taken from it).
C15_MalformedHistoryNotLoaded ==
  [][\A i \in Inst :
       LET session == StoreRead(storage, wf[i].session_id)
       IN Reads(i) /\ session # NoSession /\ Malformed(session.memory) =>
            /\ wf'[i].runs = wf[i].runs
            /\ \A n \in 1..Len(session.memory.runs) :
                 session.memory.runs[n].ok =>
                   \A k \in 1..Len(wf'[i].runs) :
                     wf'[i].runs[k] = WorkflowRun(session.memory.runs[n]) =>
                       wf[i].runs[k] = wf'[i].runs[k]
            /\ wf'[i].workflow_session = Cached(session)
            /\ LoadedAs(wf'[i].session_state, session.session_state, wf[i].session_state)
            /\ LoadedAs(wf'[i].user_data, session.user_data, wf[i].user_data)
            /\ wf[i].session_name = "None" /\ HasKey(session.session_data, "session_name") =>
                 wf'[i].session_name = session.session_data.m["session_name"].s]_vars

\* A stored history with a well-formed and a malformed entry was read: nothing
\* of it is in memory, the session is cached and its name and its
\* session_state key are in the workflow.
C15_Witness ==
  /\ io.op = "load_session" /\ io.calls = <<"read">>
  /\ Malformed(storage["s1"].memory) /\ storage["s1"].memory.runs[1].ok
  /\ wf[1].runs = <<>>
  /\ wf[1].workflow_session = [session_id |-> "s1"]
  /\ wf[1].session_name = "n0" /\ HasKey(wf[1].session_state, "b")

\* A WorkflowRun in memory with the content its response holds in heap.
ResolveIn(run, heap) ==
  [run EXCEPT !.content = IF run.ref # 0 THEN heap[run.ref].content ELSE @, !.ref = 0]

\* C16: in every step the records already in the memory of the instance stay
\* where they are with the same input, run_id and content, and after the step
\* every completed run has exactly one record in the memory, with its own
\* run_id and the input of its own call.
C16_RecordsImmutable ==
  [][/\ Len(wf'[1].runs) >= Len(wf[1].runs)
     /\ \A n \in 1..Len(wf[1].runs) :
          ResolveIn(wf'[1].runs[n], response') = ResolveIn(wf[1].runs[n], response)
     /\ \A r \in Runs :
          gen'[r].state \in {"finished", "returned"} =>
            /\ Cardinality({n \in 1..Len(wf'[1].runs) : wf'[1].runs[n].run_id = r}) = 1
            /\ \A n \in 1..Len(wf'[1].runs) :
                 wf'[1].runs[n].run_id = r => wf'[1].runs[n].input = CallArgs(r)]_vars

\* Runs r and x were both between their read and their final write at one time.
Overlap(r, x) == x \in gen[r].concurrent \/ r \in gen[x].concurrent
\* The stored form of the record of run r, once it has returned a RunResponse.
RecordOf(r, heap) == RunToDict(LiveRun(CallArgs(r), r), heap)
Holds(stored, r) == \E n \in 1..Len(stored) : stored[n].run_id = r

\* C17: two instances on one session_id and a storage whose upserts work. A
\* step in which a run returns its RunResponse and writes, when no other run
\* was between its read and its write meanwhile, leaves the stored runs equal
\* to the stored runs before the step plus the record of that run; when
\* another instance's run overlapped it and has written already, the write
\* leaves the stored runs without the record of that other run, both runs
\* being completed.
C17_LostUpdateOnOverlap ==
  [][\A r \in Runs :
       (gen[r].state = "user" /\ gen'[r].state = "returned" /\ failures' = 0) =>
         LET sid == wf[gen[r].owner].session_id
         IN /\ (\A x \in Runs \ {r} : ~Overlap(r, x)) =>
                 StoredRuns(sid)' = Append(StoredRuns(sid), RecordOf(r, response'))
            /\ \A x \in Runs \ {r} :
                 Overlap(r, x) /\ gen[x].state = "returned" =>
                   /\ Holds(StoredRuns(sid), x)
                   /\ ~Holds(StoredRuns(sid)', x)
                   /\ Holds(StoredRuns(sid)', r)]_vars

\* Both instances read, then both returned a RunResponse and wrote: the two
\* runs are completed, each instance has cached what it wrote, and the stored
\* runs hold the record of the second writer only.
C17_Witness ==
  \E r, x \in Runs :
    /\ r # x /\ Overlap(r, x) /\ failures = 0
    /\ gen[r].state = "returned" /\ gen[x].state = "returned"
    /\ gen[r].owner # gen[x].owner
    /\ Holds(StoredRuns("s1"), r) /\ ~Holds(StoredRuns("s1"), x)
    /\ Holds(wf[gen[x].owner].runs, x)

\* Instance 2 as constructed: the session_id and workflow_id of instance 1,
\* no dicts and no names of its own, nothing loaded, no run.
Fresh(i) == wf[i] = Workflows(TRUE, "None")[i]
SameRuns(a, b, heap) ==
  /\ Len(a) = Len(b)
  /\ \A n \in 1..Len(a) : ResolveIn(a[n], heap) = ResolveIn(b[n], heap)

\* C18: on a storage whose upserts work, once instance 1 has completed and
\* written a run, the step in which the fresh instance 2 (same session_id and
\* workflow_id, no dicts of its own) loads the session leaves it with the
\* runs instance 1 has in memory, with the session_state and user_data
\* instance 1 has, and with the session_state, user_data and session_data the
\* storage holds from instance 1's write: every stored run and every stored
\* key of those dicts is in instance 2.
C18_FreshInstanceResumes ==
  [][(/\ Reads(2) /\ Fresh(2) /\ failures = 0
      /\ \E r \in Runs : gen[r].owner = 1 /\ gen[r].state = "returned") =>
       LET session == StoreRead(storage, wf[2].session_id)
       IN /\ session # NoSession
          /\ SameRuns(wf'[2].runs, wf[1].runs, response')
          /\ wf'[2].runs = Rebuilt(session.memory.runs)
          /\ wf'[2].session_state = wf[1].session_state
          /\ wf'[2].user_data = wf[1].user_data
          /\ wf'[2].session_state = session.session_state
          /\ wf'[2].user_data = session.user_data
          /\ wf'[2].session_data = session.session_data
          /\ wf'[2].session_id = wf[1].session_id /\ wf'[2].workflow_id = wf[1].workflow_id]_vars

\* Instance 1 found a stored session, merged it with its own dicts, completed
\* a run and wrote; instance 2 has just loaded: it has the run of the earlier
\* process and the run of instance 1, and the merged session_state.
C18_Witness ==
  /\ io.op = "load_session" /\ io.inst = 2 /\ io.calls = <<"read">> /\ failures = 0
  /\ \E r \in Runs : gen[r].owner = 1 /\ gen[r].state = "returned" /\ Holds(wf[2].runs, r)
  /\ Len(wf[2].runs) = 2 /\ wf[2].runs[1].run_id = 0
  /\ wf[2].session_state = M([k \in {"a", "b"} |-> IF k = "a" THEN S("l") ELSE S("p")])
  /\ wf[2].session_state = wf[1].session_state

\* The session_name the storage holds for a session_id, "None" when it holds
\* no session or no name.
StoredName(st, sid) ==
  IF st[sid] # NoSession /\ HasKey(st[sid].session_data, "session_name")
  THEN st[sid].session_data.m["session_name"].s ELSE "None"

\* C19: once rename_session has put a name in the stored session of the
\* instance's own session_id, a step in which a run of that instance returns
\* its RunResponse and writes leaves that name in the stored session.
C19_RenameDurable ==
  [][\A r \in Runs : \A name \in Names :
       (/\ gen[r].state = "user" /\ gen'[r].state = "returned" /\ failures' = failures
        /\ StoredName(storage, wf[gen[r].owner].session_id) = name) =>
         StoredName(storage', wf[gen[r].owner].session_id) = name]_vars

StoredRunsIn(st, sid) == IF st[sid] = NoSession THEN <<>> ELSE st[sid].memory.runs

\* C20: a run that starts when the storage holds no session for the
\* instance's session_id (it was deleted, or never written) reads nothing:
\* the runs in memory stay and no session is cached; and when that run returns
\* its RunResponse and its upsert works, the storage holds a session for that
\* session_id again whose runs are the runs the instance held, in order,
\* followed by the record of the new run.
C20_RunRecreatesDeleted ==
  [][\A r \in Runs :
       LET i == gen'[r].owner
           sid == wf[i].session_id
       IN /\ (gen[r].state = "unused" /\ gen'[r].state = "user"
               /\ StoreRead(storage, sid) = NoSession) =>
                /\ wf'[i].runs = wf[i].runs
                /\ wf'[i].workflow_session = NoSession
                /\ ~gen'[r].stored
                /\ storage' = storage
          /\ (gen[r].state = "user" /\ gen'[r].state = "returned"
               /\ ~gen[r].stored /\ failures' = failures) =>
                /\ StoreRead(storage', sid) # NoSession
                /\ StoredRunsIn(storage', sid) =
                     [n \in 1..Len(wf[i].runs) |-> RunToDict(wf[i].runs[n], response')]
                       \o <<RecordOf(r, response')>>
                /\ wf'[i].workflow_session = Cached(StoreRead(storage', sid))]_vars

\* The instance loaded a stored session, the session was deleted, and the run
\* that then found nothing has written: the storage holds the session again
\* with the run of the earlier process and the new one.
C20_Witness ==
  \E r \in Runs :
    /\ gen[r].state = "returned" /\ ~gen[r].stored /\ gen[r].owner = 1
    /\ Len(StoredRuns("s1")) = 2
    /\ StoredRuns("s1")[1].run_id = 0 /\ StoredRuns("s1")[2].run_id = r
    /\ wf[1].workflow_session = [session_id |-> "s1"]
====
